---- MODULE Spec2Model ----
(***************************************************************************)
(* State-machine model of the AutoTrader of src/autotrader.cc: a           *)
(* callback-driven pair-trading engine for an ETF and its FUTURE.          *)
(*                                                                         *)
(* Every C++ "unsigned long" value is held as a small signed integer r     *)
(* that stands for the 64-bit value r mod 2^64 (r < 0 stands for           *)
(* 2^64 + r).  Sums and differences of such representatives are exact;     *)
(* comparisons and divisions go through the UL operators below, which      *)
(* compute what the 64-bit unsigned operation computes.                    *)
(***************************************************************************)
EXTENDS Integers, Sequences, FiniteSets, TLC

(* ---------------------------- program constants ------------------------ *)
LOT_SIZE == 10
POSITION_LIMIT == 100
TICK_SIZE_IN_CENTS == 100
\* MINIMUM_BID and MAXIMUM_ASK of the ready_trader_go library, used at lines 38-39
MINIMUM_BID == 1
MAXIMUM_ASK == 2147483647
MIN_BID_NEARST_TICK == ((MINIMUM_BID + TICK_SIZE_IN_CENTS) \div TICK_SIZE_IN_CENTS) * TICK_SIZE_IN_CENTS
MAX_ASK_NEAREST_TICK == (MAXIMUM_ASK \div TICK_SIZE_IN_CENTS) * TICK_SIZE_IN_CENTS
\* "size() <= 31": a window is appended to without eviction up to this size
WindowPushLimit == 31
\* "rolling avg for thirty": the number of midprices a window is meant to hold
WindowLength == 30

(* ------------------------------- bounds -------------------------------- *)
\* market-update callbacks handled in one run of the general specification
MaxUpdates == 3

\* longest spread history the signal evaluation is applied to on its own
MaxHistory == 4

\* market-update callbacks handled in one run of a steady market
MaxDeepUpdates == 34

\* market-update callbacks handled in one run of an unordered feed
MaxSeqUpdates == 2

\* market-update callbacks handled in one run of a rising market
MaxTrendUpdates == 14

(* ------------------------------- inputs -------------------------------- *)
Instruments == {"ETF", "FUTURE"}
\* top-of-book snapshots a market update may carry: level-0 prices in cents
\* and displayed volumes; a price of 0 is an empty side
Books == { [bid |-> 0,   bidVol |-> 0,  ask |-> 0,   askVol |-> 0],
           [bid |-> 0,   bidVol |-> 0,  ask |-> 201, askVol |-> 5],
           [bid |-> 199, bidVol |-> 3,  ask |-> 0,   askVol |-> 0],
           [bid |-> 199, bidVol |-> 3,  ask |-> 201, askVol |-> 20],
           [bid |-> 99,  bidVol |-> 20, ask |-> 101, askVol |-> 3] }
\* volumes of a fill notification
FillVolumes == {10, 150}
\* client order ids of gateway callbacks; 0 is the id the engine's orders carry
Ids == {0, 1, 2}
\* values a member that the source never assigns may hold
UninitVolumes == {0, 20}
UninitIds == {0}
\* spread samples (ETF midprice - FUTURE midprice) of a history
Samples == {-100, -1, 0, 1, 100}
\* remaining volumes of an order-status callback
RemainingVolumes == {0, 5}
\* sequence numbers of the updates of a feed that may repeat and reorder them
SequenceNumbers == {1, 2}

VARIABLES
    ETF_ask_arr, ETF_bid_arr, FTR_ask_arr, FTR_bid_arr,
    ETF_bestAsk, ETF_bestBid, FTR_bestAsk, FTR_bestBid,
    FTR_ask_vol_arr, FTR_bid_vol_arr,
    ETF_midprice, FTR_midprice,
    ETF_recent_mp_prices, FTR_recent_mp_prices, DIFF_recent_mp_prices,
    ETF_Much_Greater, FTR_Much_Greater,
    ETF_Pos, FTR_Pos, mPosition,
    mAskID, ETF_tempID, mAskId, mBidId, mAsks, mBids, mNextMessageId,
    my_ETF_ask_arr, my_ETF_ask_ids, my_ETF_ask_vol_arr,
    my_ETF_bid_arr, my_ETF_bid_ids, my_etf_bid_vol_arr,
    my_FTR_bid_arr, my_FTR_bid_vol_arr,
    my_FTR_ask_arr, my_FTR_ask_ids, my_FTR_ask_vol_arr,
    crashed,
    \* the gateway's side (no fields of AutoTrader): the latest snapshot it
    \* delivered per instrument, every order it received, the orders received
    \* during the last callback, that callback with its arguments, and how
    \* often each id has been removed from the active-order set
    snap, sent, out, lastCall, closed,
    \* whether the disconnect callback has been handled, and per instrument
    \* the market updates handled so far, oldest first: the sequence number
    \* each carried and the midprice computed from it
    disconnected, recorded,
    \* the library's side: whether the session that delivers callbacks is up
    running

snapshotVars == <<ETF_ask_arr, ETF_bid_arr, FTR_ask_arr, FTR_bid_arr,
                  ETF_bestAsk, ETF_bestBid, FTR_bestAsk, FTR_bestBid,
                  ETF_midprice, FTR_midprice>>
uninitVars == <<FTR_ask_vol_arr, FTR_bid_vol_arr, ETF_tempID>>
windowVars == <<ETF_recent_mp_prices, FTR_recent_mp_prices, DIFF_recent_mp_prices>>
signalVars == <<ETF_Much_Greater, FTR_Much_Greater>>
positionVars == <<ETF_Pos, FTR_Pos, mPosition>>
lifecycleVars == <<mAskId, mBidId, mAsks, mBids>>
bookVars == <<my_ETF_ask_arr, my_ETF_ask_ids, my_ETF_ask_vol_arr,
              my_ETF_bid_arr, my_ETF_bid_ids, my_etf_bid_vol_arr,
              my_FTR_bid_arr, my_FTR_bid_vol_arr,
              my_FTR_ask_arr, my_FTR_ask_ids, my_FTR_ask_vol_arr>>
marketVars == <<snapshotVars, windowVars, signalVars, bookVars, snap>>
vars == <<snapshotVars, uninitVars, windowVars, signalVars, positionVars,
          mAskID, lifecycleVars, mNextMessageId, bookVars, crashed,
          snap, sent, out, lastCall, closed, disconnected, running, recorded>>

(* ------------------------------ helpers -------------------------------- *)
Last(s) == s[Len(s)]

\* std::min on two unsigned long values (both non-negative here)
Min(a, b) == IF a < b THEN a ELSE b

RECURSIVE SumFrom(_, _)
\* sum of s[i..Len(s)], as the loops "for (i = 1; i < size; i++)" accumulate it
SumFrom(s, i) == IF i > Len(s) THEN 0 ELSE s[i] + SumFrom(s, i + 1)

(* ----------------------- 64-bit unsigned arithmetic -------------------- *)
\* 2^64 mod n, from 2^16 mod n (n < 200 keeps every product inside TLC's integers)
TwoTo64Mod(n) == LET a == 65536 % n
                     b == (a * a) % n
                 IN  (b * b) % n

\* An unsigned long as [q, r]: q = 0 is the value r mod 2^64;
\* q = n >= 2 is the value (2^64 div n) + r.
UL(r) == [q |-> 0, r |-> r]

\* the band an unsigned value lies in: small, around 2^64 div n, just below 2^64
ULBand(x) == IF x.q # 0 THEN 1 ELSE IF x.r >= 0 THEN 0 ELSE 2

\* x < y on unsigned long
ULLess(x, y) == \/ ULBand(x) < ULBand(y)
                \/ ULBand(x) = ULBand(y) /\ x.r < y.r

\* x + k and x - k on unsigned long (wrapping at 0 and at 2^64)
ULAdd(x, k) == [q |-> x.q, r |-> x.r + k]

\* (s mod 2^64) / n on unsigned long, n >= 1
ULDiv(s, n) == IF s >= 0 THEN UL(s \div n)
               ELSE IF n = 1 THEN UL(s)
               ELSE [q |-> n, r |-> (TwoTo64Mod(n) + s) \div n]

(* --------------------------- signal evaluation ------------------------- *)
\* the exponent "1/2" of line 79: integer division
HalfExponent == 1 \div 2

\* std::pow(b, e) stored into an unsigned long, for the exponents used
Pow(b, e) == IF e = 0 THEN 1 ELSE IF e = 2 THEN b * b ELSE b

RECURSIVE SqDevSum(_, _, _)
\* the accumulation of lines 75-78 over s[i..Len(s)]; -1 when a deviation
\* avgDif - s[i] wraps below zero, whose square is outside unsigned long
SqDevSum(s, avg, i) ==
    IF i > Len(s) THEN 0
    ELSE LET d == avg - s[i]
             rest == SqDevSum(s, avg, i + 1)
         IN  IF d < 0 \/ rest < 0 THEN -1 ELSE Pow(d, 2) + rest

\* quotient an integer division by zero leaves on hardware that does not trap
DivByZeroQuotient == 0

\* lines 66-71: mean of entries 1..size-1 (the oldest entry, index 0, is skipped)
avgDif(s) == IF Len(s) - 1 = 0 THEN UL(DivByZeroQuotient)
             ELSE ULDiv(SumFrom(s, 2), Len(s) - 1)

\* lines 74-79
stdDevDif(s) ==
    LET a == avgDif(s)
        acc == IF a.q = 0 THEN SqDevSum(s, a.r, 2) ELSE -1
        mean == IF Len(s) - 1 = 0 THEN DivByZeroQuotient
                ELSE IF acc < 0 THEN acc ELSE acc \div (Len(s) - 1)
    IN  Pow(mean, HalfExponent)

\* lines 82-93: the flags <<ETF_Much_Greater, FTR_Much_Greater>>
Verdict(s) ==
    LET newest == UL(s[Len(s)])
        a == avgDif(s)
        sd == stdDevDif(s)
    IN  IF ULLess(ULAdd(a, 1 * sd), newest) THEN <<TRUE, FALSE>>
        ELSE IF ULLess(newest, ULAdd(a, -(1 * sd))) THEN <<FALSE, TRUE>>
        ELSE <<FALSE, FALSE>>

\* Outcomes of a call: the division by size-1 = 0 at line 71 is undefined
\* behaviour, which either traps (the process dies) or yields a quotient.
deterMineOrderStatus(s) ==
    IF Len(s) - 1 = 0
    THEN {[crash |-> TRUE, flags |-> <<ETF_Much_Greater, FTR_Much_Greater>>],
          [crash |-> FALSE, flags |-> Verdict(s)]}
    ELSE {[crash |-> FALSE, flags |-> Verdict(s)]}

(* ------------------------------ order sizing --------------------------- *)
OrderVolume_max(x) == IF x > LOT_SIZE THEN x ELSE LOT_SIZE

\* std::min((unsigned long)LOT_SIZE, x)
OrderVolume(x) == Min(LOT_SIZE, x)

RECURSIVE InFlightTo(_, _)
\* the volume of the first n orders sent that are ETF insert orders of a side
InFlightTo(side, n) ==
    IF n = 0 THEN 0
    ELSE InFlightTo(side, n - 1) +
         (IF sent[n].kind = "insert" /\ sent[n].side = side THEN sent[n].volume ELSE 0)

\* the volume of all ETF insert orders of a side sent so far
InFlight(side) == InFlightTo(side, Len(sent))

SellGuard_reserving(pos, bid0) ==
    ULLess(UL(-100), UL(pos - InFlight("SELL") - OrderVolume(bid0)))

\* line 170: ETF_Pos - min(LOT_SIZE, ETF_bid_arr[0]) > -100, compared as unsigned long
SellGuard(pos, bid0) == ULLess(UL(-100), UL(pos - OrderVolume(bid0)))

\* line 193: ETF_Pos + min(LOT_SIZE, ETF_bid_arr[0]) < 100, compared as unsigned long
BuyGuard(pos, bid0) == ULLess(UL(pos + OrderVolume(bid0)), UL(100))

Order_swapped(kind, id, side, price, volume) ==
    [kind |-> kind, id |-> id, side |-> side, price |-> volume, volume |-> price]

\* the arguments of SendInsertOrder / SendHedgeOrder, as the gateway receives them
Order(kind, id, side, price, volume) ==
    [kind |-> kind, id |-> id, side |-> side, price |-> price, volume |-> volume]

\* a window after push_back, with pop() of the oldest entry past the limit
PushWindow(w, x) == IF Len(w) <= WindowPushLimit THEN Append(w, x)
                    ELSE Append(Tail(w), x)

Call(kind, instrument, id, volume, remaining) ==
    [kind |-> kind, instrument |-> instrument, id |-> id,
     volume |-> volume, remaining |-> remaining]

(* ------------------------------- initial state ------------------------- *)
\* Members start at zero / empty.  The volume arrays FTR_ask_vol_arr and
\* FTR_bid_vol_arr and the id ETF_tempID are read by the handlers but assigned
\* nowhere in the source: they hold whatever they were constructed with.
InitMembers ==
    /\ ETF_ask_arr = 0 /\ ETF_bid_arr = 0 /\ FTR_ask_arr = 0 /\ FTR_bid_arr = 0
    /\ ETF_bestAsk = 0 /\ ETF_bestBid = 0 /\ FTR_bestAsk = 0 /\ FTR_bestBid = 0
    /\ FTR_ask_vol_arr \in UninitVolumes
    /\ FTR_bid_vol_arr \in UninitVolumes
    /\ ETF_tempID \in UninitIds
    /\ ETF_midprice = 0 /\ FTR_midprice = 0
    /\ ETF_recent_mp_prices = <<>>
    /\ FTR_recent_mp_prices = <<>>
    /\ ETF_Much_Greater = FALSE /\ FTR_Much_Greater = FALSE
    /\ ETF_Pos = 0 /\ FTR_Pos = 0 /\ mPosition = 0
    /\ mAskID = 0
    /\ mNextMessageId = 1
    /\ my_ETF_ask_arr = <<>> /\ my_ETF_ask_ids = <<>> /\ my_ETF_ask_vol_arr = <<>>
    /\ my_ETF_bid_arr = <<>> /\ my_ETF_bid_ids = <<>> /\ my_etf_bid_vol_arr = <<>>
    /\ my_FTR_bid_arr = <<>> /\ my_FTR_bid_vol_arr = <<>>
    /\ my_FTR_ask_arr = <<>> /\ my_FTR_ask_ids = <<>> /\ my_FTR_ask_vol_arr = <<>>
    /\ crashed = FALSE
    /\ snap = [i \in Instruments |-> [bid |-> 0, bidVol |-> 0, ask |-> 0, askVol |-> 0]]
    /\ sent = <<>>
    /\ out = <<>>
    /\ lastCall = Call("none", "-", 0, 0, 0)
    /\ closed = [id \in Ids |-> 0]
    /\ disconnected = FALSE
    /\ running = TRUE
    /\ recorded = [i \in Instruments |-> <<>>]

\* lines 41-43: the state after construction
Init ==
    /\ InitMembers
    /\ DIFF_recent_mp_prices = <<>>
    /\ mAskId = 0 /\ mBidId = 0
    /\ mAsks = {} /\ mBids = {}

(* ------------------------------ market updates ------------------------- *)
\* lines 170-215 (repeated at 250-295): the pair trade placed on the flags
\* e = ETF_Much_Greater, f = FTR_Much_Greater after the evaluation, if any.
\* It reads the snapshot fields as the handler has just set them.
PlacePairTrade(e, f) ==
    IF e /\ SellGuard(ETF_Pos, ETF_bid_arr')
    THEN LET tempID == mAskID
             vol == OrderVolume(ETF_bid_arr')
             tempID2 == mAskID
             hvol == OrderVolume(FTR_ask_vol_arr)
         IN  /\ out' = << Order("insert", mAskID, "SELL", ETF_bestBid', vol),
                          Order("hedge", mAskID, "BUY", FTR_bestAsk', hvol) >>
             /\ my_ETF_ask_arr' = Append(my_ETF_ask_arr, ETF_bestBid')
             /\ my_ETF_ask_ids' = Append(my_ETF_ask_ids, ETF_tempID)
             /\ my_ETF_ask_vol_arr' = Append(my_ETF_ask_vol_arr, vol)
             /\ my_FTR_bid_arr' = Append(my_FTR_bid_arr, FTR_bestAsk')
             /\ my_FTR_ask_ids' = Append(my_FTR_ask_ids, tempID2)
             /\ my_FTR_bid_vol_arr' = Append(my_FTR_bid_vol_arr, hvol)
             /\ UNCHANGED <<my_ETF_bid_arr, my_ETF_bid_ids, my_etf_bid_vol_arr,
                            my_FTR_ask_arr, my_FTR_ask_vol_arr>>
    ELSE IF f /\ BuyGuard(ETF_Pos, ETF_bid_arr')
    THEN LET tempID == mAskID
             vol == OrderVolume(ETF_ask_arr')
             tempID2 == mAskID
             hvol == OrderVolume(FTR_bid_vol_arr)
         IN  /\ out' = << Order("insert", mAskID, "BUY", ETF_bestAsk', vol),
                          Order("hedge", mAskID, "SELL", FTR_bestBid', hvol) >>
             /\ my_ETF_bid_arr' = Append(my_ETF_bid_arr, ETF_bestAsk')
             /\ my_ETF_bid_ids' = Append(my_ETF_bid_ids, tempID)
             /\ my_etf_bid_vol_arr' = Append(my_etf_bid_vol_arr, vol)
             /\ my_FTR_ask_arr' = Append(my_FTR_ask_arr, FTR_bestBid')
             /\ my_FTR_ask_ids' = Append(my_FTR_ask_ids, tempID2)
             /\ my_FTR_ask_vol_arr' = Append(my_FTR_ask_vol_arr, hvol)
             /\ UNCHANGED <<my_ETF_ask_arr, my_ETF_ask_ids, my_ETF_ask_vol_arr,
                            my_FTR_bid_arr, my_FTR_bid_vol_arr>>
    ELSE /\ out' = <<>>
         /\ UNCHANGED bookVars

SignalAndTrade_everyUpdate(etfWin, ftrWin) ==
    IF ETF_midprice' # 0 /\ FTR_midprice' # 0
    THEN /\ DIFF_recent_mp_prices' =
               Append(DIFF_recent_mp_prices, Last(etfWin) - Last(ftrWin))
         /\ \E o \in deterMineOrderStatus(DIFF_recent_mp_prices') :
               /\ crashed' = o.crash
               /\ ETF_Much_Greater' = o.flags[1]
               /\ FTR_Much_Greater' = o.flags[2]
               /\ IF o.crash
                  THEN out' = <<>> /\ UNCHANGED bookVars
                  ELSE PlacePairTrade(o.flags[1], o.flags[2])
    ELSE /\ out' = <<>>
         /\ UNCHANGED <<DIFF_recent_mp_prices, signalVars, crashed, bookVars>>

\* lines 158-216 (repeated at 238-296): the part of a market update after the
\* midprice is stored, given the two windows as the handler has just left them.
SignalAndTrade(etfWin, ftrWin) ==
    IF ETF_midprice' # 0 /\ FTR_midprice' # 0
    THEN IF Len(etfWin) = Len(ftrWin)
         THEN /\ DIFF_recent_mp_prices' =
                    Append(DIFF_recent_mp_prices, Last(etfWin) - Last(ftrWin))
              /\ \E o \in deterMineOrderStatus(DIFF_recent_mp_prices') :
                    /\ crashed' = o.crash
                    /\ ETF_Much_Greater' = o.flags[1]
                    /\ FTR_Much_Greater' = o.flags[2]
                    /\ IF o.crash
                       THEN out' = <<>> /\ UNCHANGED bookVars
                       ELSE PlacePairTrade(o.flags[1], o.flags[2])
         ELSE /\ UNCHANGED <<DIFF_recent_mp_prices, signalVars, crashed>>
              /\ PlacePairTrade(ETF_Much_Greater, FTR_Much_Greater)
    ELSE /\ out' = <<>>
         /\ UNCHANGED <<DIFF_recent_mp_prices, signalVars, crashed, bookVars>>

\* lines 138-217 and 219-297: the body of OrderBookMessageHandler.
\* sequenceNumber is read nowhere; askVolumes and bidVolumes are logged and
\* stored nowhere.
MarketUpdate(instrument, sequenceNumber, askPrice, askVolume, bidPrice, bidVolume) ==
    /\ snap' = [snap EXCEPT ![instrument] = [bid |-> bidPrice, bidVol |-> bidVolume,
                                             ask |-> askPrice, askVol |-> askVolume]]
    /\ recorded' = [recorded EXCEPT ![instrument] =
                       Append(@, [seq |-> sequenceNumber,
                                  mid |-> (askPrice + bidPrice) \div 2])]
    /\ IF instrument = "ETF"
       THEN /\ ETF_ask_arr' = askPrice
            /\ ETF_bid_arr' = bidPrice
            /\ ETF_bestAsk' = askPrice
            /\ ETF_bestBid' = bidPrice
            /\ ETF_midprice' = (askPrice + bidPrice) \div 2
            /\ ETF_recent_mp_prices' = PushWindow(ETF_recent_mp_prices, ETF_midprice')
            /\ UNCHANGED <<FTR_ask_arr, FTR_bid_arr, FTR_bestAsk, FTR_bestBid,
                           FTR_midprice, FTR_recent_mp_prices>>
       ELSE /\ FTR_ask_arr' = askPrice
            /\ FTR_bid_arr' = bidPrice
            /\ FTR_bestAsk' = askPrice
            /\ FTR_bestBid' = bidPrice
            /\ FTR_midprice' = (askPrice + bidPrice) \div 2
            /\ FTR_recent_mp_prices' = PushWindow(FTR_recent_mp_prices, FTR_midprice')
            /\ UNCHANGED <<ETF_ask_arr, ETF_bid_arr, ETF_bestAsk, ETF_bestBid,
                           ETF_midprice, ETF_recent_mp_prices>>
    /\ SignalAndTrade(ETF_recent_mp_prices', FTR_recent_mp_prices')
    /\ sent' = sent \o out'
    /\ UNCHANGED <<uninitVars, positionVars, mAskID, lifecycleVars, mNextMessageId,
                   closed, disconnected, running>>

TradeTicksUpdate_statisticsOnly(instrument, sequenceNumber, askPrice, askVolume, bidPrice, bidVolume) ==
    /\ snap' = [snap EXCEPT ![instrument] = [bid |-> bidPrice, bidVol |-> bidVolume,
                                             ask |-> askPrice, askVol |-> askVolume]]
    /\ recorded' = [recorded EXCEPT ![instrument] =
                       Append(@, [seq |-> sequenceNumber,
                                  mid |-> (askPrice + bidPrice) \div 2])]
    /\ IF instrument = "ETF"
       THEN /\ ETF_ask_arr' = askPrice
            /\ ETF_bid_arr' = bidPrice
            /\ ETF_bestAsk' = askPrice
            /\ ETF_bestBid' = bidPrice
            /\ ETF_midprice' = (askPrice + bidPrice) \div 2
            /\ ETF_recent_mp_prices' = PushWindow(ETF_recent_mp_prices, ETF_midprice')
            /\ UNCHANGED <<FTR_ask_arr, FTR_bid_arr, FTR_bestAsk, FTR_bestBid,
                           FTR_midprice, FTR_recent_mp_prices>>
       ELSE /\ FTR_ask_arr' = askPrice
            /\ FTR_bid_arr' = bidPrice
            /\ FTR_bestAsk' = askPrice
            /\ FTR_bestBid' = bidPrice
            /\ FTR_midprice' = (askPrice + bidPrice) \div 2
            /\ FTR_recent_mp_prices' = PushWindow(FTR_recent_mp_prices, FTR_midprice')
            /\ UNCHANGED <<ETF_ask_arr, ETF_bid_arr, ETF_bestAsk, ETF_bestBid,
                           ETF_midprice, ETF_recent_mp_prices>>
    /\ out' = <<>>
    /\ UNCHANGED <<DIFF_recent_mp_prices, signalVars, crashed, bookVars, sent>>
    /\ UNCHANGED <<uninitVars, positionVars, mAskID, lifecycleVars, mNextMessageId,
                   closed, disconnected, running>>

\* lines 359-518: the body of TradeTicksMessageHandler, which stores the
\* snapshot and the midprice (359-377, 439-457) and then runs lines 379-437 /
\* 459-517, the text of lines 158-216 again
TradeTicksUpdate(instrument, sequenceNumber, askPrice, askVolume, bidPrice, bidVolume) ==
    /\ snap' = [snap EXCEPT ![instrument] = [bid |-> bidPrice, bidVol |-> bidVolume,
                                             ask |-> askPrice, askVol |-> askVolume]]
    /\ recorded' = [recorded EXCEPT ![instrument] =
                       Append(@, [seq |-> sequenceNumber,
                                  mid |-> (askPrice + bidPrice) \div 2])]
    /\ IF instrument = "ETF"
       THEN /\ ETF_ask_arr' = askPrice
            /\ ETF_bid_arr' = bidPrice
            /\ ETF_bestAsk' = askPrice
            /\ ETF_bestBid' = bidPrice
            /\ ETF_midprice' = (askPrice + bidPrice) \div 2
            /\ ETF_recent_mp_prices' = PushWindow(ETF_recent_mp_prices, ETF_midprice')
            /\ UNCHANGED <<FTR_ask_arr, FTR_bid_arr, FTR_bestAsk, FTR_bestBid,
                           FTR_midprice, FTR_recent_mp_prices>>
       ELSE /\ FTR_ask_arr' = askPrice
            /\ FTR_bid_arr' = bidPrice
            /\ FTR_bestAsk' = askPrice
            /\ FTR_bestBid' = bidPrice
            /\ FTR_midprice' = (askPrice + bidPrice) \div 2
            /\ FTR_recent_mp_prices' = PushWindow(FTR_recent_mp_prices, FTR_midprice')
            /\ UNCHANGED <<ETF_ask_arr, ETF_bid_arr, ETF_bestAsk, ETF_bestBid,
                           ETF_midprice, ETF_recent_mp_prices>>
    /\ SignalAndTrade(ETF_recent_mp_prices', FTR_recent_mp_prices')
    /\ sent' = sent \o out'
    /\ UNCHANGED <<uninitVars, positionVars, mAskID, lifecycleVars, mNextMessageId,
                   closed, disconnected, running>>

UpdatesHandled == Len(recorded["ETF"]) + Len(recorded["FUTURE"])

\* the sequence number of the next update of an in-order feed
NextSeq(instrument) == Len(recorded[instrument]) + 1

OrderBookMessageHandler ==
    /\ ~crashed
    /\ running
    /\ UpdatesHandled < MaxUpdates
    /\ \E i \in Instruments, b \in Books :
          /\ MarketUpdate(i, NextSeq(i), b.ask, b.askVol, b.bid, b.bidVol)
          /\ lastCall' = Call("OrderBook", i, 0, 0, 0)

TradeTicksMessageHandler ==
    /\ ~crashed
    /\ running
    /\ UpdatesHandled < MaxUpdates
    /\ \E i \in Instruments, b \in Books :
          /\ TradeTicksUpdate(i, NextSeq(i), b.ask, b.askVol, b.bid, b.bidVol)
          /\ lastCall' = Call("TradeTicks", i, 0, 0, 0)

(* ------------------------------ order lifecycle ------------------------ *)
TrackedAsk_flipped(clientOrderId) == clientOrderId \notin mAsks

\* mAsks.count(clientOrderId) == 1
TrackedAsk(clientOrderId) == clientOrderId \in mAsks

TrackedBid_asks(clientOrderId) == clientOrderId \in mAsks

\* mBids.count(clientOrderId) == 1
TrackedBid(clientOrderId) == clientOrderId \in mBids

StatusEffect_keepsBid(clientOrderId, remainingVolume) ==
    IF remainingVolume = 0
    THEN /\ mAskId' = IF clientOrderId = mAskId THEN 0 ELSE mAskId
         /\ mBidId' = IF clientOrderId # mAskId /\ clientOrderId = mBidId THEN 0 ELSE mBidId
         /\ mAsks' = mAsks \ {clientOrderId}
         /\ mBids' = mBids
    ELSE UNCHANGED lifecycleVars

\* lines 328-341
StatusEffect(clientOrderId, remainingVolume) ==
    IF remainingVolume = 0
    THEN /\ mAskId' = IF clientOrderId = mAskId THEN 0 ELSE mAskId
         /\ mBidId' = IF clientOrderId # mAskId /\ clientOrderId = mBidId THEN 0 ELSE mBidId
         /\ mAsks' = mAsks \ {clientOrderId}
         /\ mBids' = mBids \ {clientOrderId}
    ELSE UNCHANGED lifecycleVars

\* the removals from the active-order set a step makes, counted per id
CountRemovals ==
    closed' = [id \in Ids |->
                 IF id \in (mAsks \cup mBids) /\ id \notin (mAsks' \cup mBids')
                 THEN closed[id] + 1 ELSE closed[id]]

OrderStatusMessageHandler ==
    /\ ~crashed
    /\ running
    /\ \E id \in Ids, rem \in RemainingVolumes :
          /\ StatusEffect(id, rem)
          /\ lastCall' = Call("OrderStatus", "-", id, 0, rem)
    /\ CountRemovals
    /\ out' = <<>>
    /\ UNCHANGED <<marketVars, uninitVars, positionVars, mAskID, mNextMessageId,
                   crashed, sent, disconnected, running, recorded>>

ErrorMessageHandler_retries ==
    /\ ~crashed
    /\ running
    /\ \E id \in Ids :
          /\ IF id # 0 /\ (TrackedAsk(id) \/ TrackedBid(id))
             THEN StatusEffect(id, 0)
             ELSE UNCHANGED lifecycleVars
          /\ lastCall' = Call("Error", "-", id, 0, 0)
          /\ out' = << Order("insert", id, "SELL", ETF_bestBid, LOT_SIZE) >>
    /\ CountRemovals
    /\ sent' = sent \o out'
    /\ UNCHANGED <<marketVars, uninitVars, positionVars, mAskID, mNextMessageId,
                   crashed, disconnected, running, recorded>>

\* lines 105-113
ErrorMessageHandler ==
    /\ ~crashed
    /\ running
    /\ \E id \in Ids :
          /\ IF id # 0 /\ (TrackedAsk(id) \/ TrackedBid(id))
             THEN StatusEffect(id, 0)
             ELSE UNCHANGED lifecycleVars
          /\ lastCall' = Call("Error", "-", id, 0, 0)
    /\ CountRemovals
    /\ out' = <<>>
    /\ UNCHANGED <<marketVars, uninitVars, positionVars, mAskID, mNextMessageId,
                   crashed, sent, disconnected, running, recorded>>

\* lines 303-319; the price of the fill is only logged
OrderFilledMessageHandler ==
    /\ ~crashed
    /\ running
    /\ \E id \in Ids, volume \in FillVolumes :
          /\ IF TrackedAsk(id)
             THEN /\ mPosition' = mPosition - volume
                  /\ out' = << Order("hedge", mNextMessageId, "BUY",
                                     MAX_ASK_NEAREST_TICK, volume) >>
                  /\ mNextMessageId' = mNextMessageId + 1
             ELSE IF TrackedBid(id)
             THEN /\ mPosition' = mPosition + volume
                  /\ out' = << Order("hedge", mNextMessageId, "SELL",
                                     MIN_BID_NEARST_TICK, volume) >>
                  /\ mNextMessageId' = mNextMessageId + 1
             ELSE /\ out' = <<>>
                  /\ UNCHANGED <<mPosition, mNextMessageId>>
          /\ lastCall' = Call("OrderFilled", "-", id, volume, 0)
    /\ sent' = sent \o out'
    /\ UNCHANGED <<marketVars, uninitVars, ETF_Pos, FTR_Pos, mAskID, lifecycleVars,
                   crashed, closed, disconnected, running, recorded>>

HedgeFilledMessageHandler_movesPosition ==
    /\ ~crashed
    /\ running
    /\ \E id \in Ids :
          lastCall' = Call("HedgeFilled", "-", id, 0, 0)
    /\ FTR_Pos' = FTR_Pos + LOT_SIZE
    /\ out' = <<>>
    /\ UNCHANGED <<marketVars, uninitVars, ETF_Pos, mPosition, mAskID, lifecycleVars,
                   mNextMessageId, crashed, sent, closed, disconnected, running, recorded>>

\* lines 116-122: logs only
HedgeFilledMessageHandler ==
    /\ ~crashed
    /\ running
    /\ \E id \in Ids :
          lastCall' = Call("HedgeFilled", "-", id, 0, 0)
    /\ out' = <<>>
    /\ UNCHANGED <<marketVars, uninitVars, positionVars, mAskID, lifecycleVars,
                   mNextMessageId, crashed, sent, closed, disconnected, running, recorded>>

BaseDisconnectHandler_returns == running' = running

\* BaseAutoTrader::DisconnectHandler(), called at line 100, is library code:
\* disconnection is terminal for the session, which delivers no callback
\* after it
BaseDisconnectHandler == running' = FALSE

\* lines 98-102: hands over to the library's handler and logs
DisconnectHandler ==
    /\ ~crashed
    /\ running
    /\ BaseDisconnectHandler
    /\ lastCall' = Call("Disconnect", "-", 0, 0, 0)
    /\ disconnected' = TRUE
    /\ out' = <<>>
    /\ UNCHANGED <<marketVars, uninitVars, positionVars, mAskID, lifecycleVars,
                   mNextMessageId, crashed, sent, closed, recorded>>

Next ==
    \/ OrderBookMessageHandler
    \/ TradeTicksMessageHandler
    \/ OrderFilledMessageHandler
    \/ OrderStatusMessageHandler
    \/ ErrorMessageHandler
    \/ HedgeFilledMessageHandler
    \/ DisconnectHandler

Spec == Init /\ [][Next]_vars

(* ------------- the signal evaluation applied to a given history --------- *)
Histories == UNION {[1..n -> Samples] : n \in 1..MaxHistory}

InitSignal ==
    /\ InitMembers
    /\ DIFF_recent_mp_prices \in Histories
    /\ mAskId = 0 /\ mBidId = 0
    /\ mAsks = {} /\ mBids = {}

\* one call deterMineOrderStatus(DIFF_recent_mp_prices), lines 62-94
EvaluateSignal ==
    /\ ~crashed
    /\ lastCall.kind = "none"
    /\ \E o \in deterMineOrderStatus(DIFF_recent_mp_prices) :
          /\ crashed' = o.crash
          /\ ETF_Much_Greater' = o.flags[1]
          /\ FTR_Much_Greater' = o.flags[2]
    /\ lastCall' = Call("deterMineOrderStatus", "-", 0, 0, 0)
    /\ UNCHANGED <<snapshotVars, uninitVars, windowVars, positionVars, mAskID,
                   lifecycleVars, mNextMessageId, bookVars, snap, sent, out, closed,
                   disconnected, running, recorded>>

NextSignal == EvaluateSignal

SpecSignal == InitSignal /\ [][NextSignal]_vars

(* ------- the status and error handlers applied to tracked orders -------- *)
\* ids of tracked orders: 0 is the empty slot
TrackIds == Ids \ {0}

\* Active-order sets as the handlers expect them: an id is an ask or a bid,
\* and a slot holds 0 or the id of a tracked order of its side.
InitLifecycle ==
    /\ InitMembers
    /\ DIFF_recent_mp_prices = <<>>
    /\ mAsks \in SUBSET TrackIds
    /\ mBids \in SUBSET (TrackIds \ mAsks)
    /\ mAskId \in {0} \cup mAsks
    /\ mBidId \in {0} \cup mBids

NextLifecycle ==
    \/ OrderStatusMessageHandler
    \/ ErrorMessageHandler

SpecLifecycle == InitLifecycle /\ [][NextLifecycle]_vars

(* ------------- a long run of book updates in a steady market ------------ *)
\* the one snapshot each instrument shows throughout: the ETF trades a
\* constant 100 above the FUTURE
SteadyBook(instrument) ==
    IF instrument = "ETF"
    THEN [bid |-> 199, bidVol |-> 3,  ask |-> 201, askVol |-> 20]
    ELSE [bid |-> 99,  bidVol |-> 20, ask |-> 101, askVol |-> 3]

\* OrderBookMessageHandler (lines 125-298) on the steady snapshots, in
\* any interleaving of the two instruments
SteadyOrderBook ==
    /\ ~crashed
    /\ running
    /\ UpdatesHandled < MaxDeepUpdates
    /\ \E i \in Instruments :
          LET b == SteadyBook(i)
          IN  /\ MarketUpdate(i, NextSeq(i), b.ask, b.askVol, b.bid, b.bidVol)
              /\ lastCall' = Call("OrderBook", i, 0, 0, 0)

NextDeep == SteadyOrderBook

SpecDeep == Init /\ [][NextDeep]_vars

(* ------------------ book updates in a rising ETF market ----------------- *)
\* the snapshot of the n-th update of an instrument: the ETF gains 100 with
\* every update, the FUTURE stays
TrendBook(instrument, n) ==
    IF instrument = "ETF"
    THEN [bid |-> 99 + 100 * n, bidVol |-> 3,  ask |-> 101 + 100 * n, askVol |-> 20]
    ELSE [bid |-> 99,           bidVol |-> 20, ask |-> 101,           askVol |-> 3]

\* OrderBookMessageHandler (lines 125-298) on the rising snapshots, in any
\* interleaving of the two instruments
TrendOrderBook ==
    /\ ~crashed
    /\ running
    /\ UpdatesHandled < MaxTrendUpdates
    /\ \E i \in Instruments :
          LET b == TrendBook(i, NextSeq(i))
          IN  /\ MarketUpdate(i, NextSeq(i), b.ask, b.askVol, b.bid, b.bidVol)
              /\ lastCall' = Call("OrderBook", i, 0, 0, 0)

NextTrend == TrendOrderBook

SpecTrend == Init /\ [][NextTrend]_vars

(* ------------ market updates of a feed that repeats and reorders -------- *)
\* OrderBookMessageHandler (lines 125-298) with any sequence number
UnorderedOrderBook ==
    /\ ~crashed
    /\ running
    /\ UpdatesHandled < MaxSeqUpdates
    /\ \E i \in Instruments, n \in SequenceNumbers, b \in Books :
          /\ MarketUpdate(i, n, b.ask, b.askVol, b.bid, b.bidVol)
          /\ lastCall' = Call("OrderBook", i, 0, 0, 0)

\* TradeTicksMessageHandler (lines 346-518) with any sequence number
UnorderedTradeTicks ==
    /\ ~crashed
    /\ running
    /\ UpdatesHandled < MaxSeqUpdates
    /\ \E i \in Instruments, n \in SequenceNumbers, b \in Books :
          /\ TradeTicksUpdate(i, n, b.ask, b.askVol, b.bid, b.bidVol)
          /\ lastCall' = Call("TradeTicks", i, 0, 0, 0)

NextSeqFeed ==
    \/ UnorderedOrderBook
    \/ UnorderedTradeTicks

SpecSeqFeed == Init /\ [][NextSeqFeed]_vars

(* =============================== properties ============================ *)
Abs(x) == IF x < 0 THEN -x ELSE x

\* the last callback handled was a book update or a trade-ticks update
MarketCall == lastCall.kind \in {"OrderBook", "TradeTicks"}

\* the last callback was a market update that appended a spread sample and
\* evaluated the signal on it (lines 158-167: both midprices non-zero and
\* the two windows of equal size)
Evaluated ==
    /\ MarketCall
    /\ ETF_midprice # 0 /\ FTR_midprice # 0
    /\ Len(ETF_recent_mp_prices) = Len(FTR_recent_mp_prices)

SentInserts == {sent[i] : i \in {j \in DOMAIN sent : sent[j].kind = "insert"}}

\* C1: in every reachable state the absolute value of each tracked position
\* (the fill-driven mPosition and the per-instrument ETF_Pos, FTR_Pos) is at
\* most POSITION_LIMIT.
C1_PositionWithinLimit ==
    /\ Abs(mPosition) <= POSITION_LIMIT
    /\ Abs(ETF_Pos) <= POSITION_LIMIT
    /\ Abs(FTR_Pos) <= POSITION_LIMIT

\* a fill larger than the limit has been handled for the id of an insert
\* order the engine sent
C1_Witness ==
    /\ lastCall.kind = "OrderFilled"
    /\ lastCall.volume > POSITION_LIMIT
    /\ \E o \in SentInserts : o.id = lastCall.id

\* C2: an ETF insert order of volume v sent by a market update leaves
\* |position - v| (SELL) or |position + v| (BUY) within POSITION_LIMIT.
C2_SendKeepsLimit ==
    MarketCall =>
        \A i \in DOMAIN out :
            out[i].kind = "insert" =>
                LET v == out[i].volume
                    d == IF out[i].side = "SELL" THEN -v ELSE v
                IN  /\ Abs(mPosition + d) <= POSITION_LIMIT
                    /\ Abs(ETF_Pos + d) <= POSITION_LIMIT

\* a market update has sent a BUY insert order of a full lot
C2_Witness ==
    /\ MarketCall
    /\ \E i \in DOMAIN out :
          out[i].kind = "insert" /\ out[i].side = "BUY" /\ out[i].volume = LOT_SIZE

\* C3: no two orders sent to the gateway carry the same clientOrderId.
C3_UniqueClientOrderIds ==
    \A i, j \in DOMAIN sent : i # j => sent[i].id # sent[j].id

\* C4: a market update that places a pair trade sends exactly one insert and
\* one hedge: on ETF_RICH a SELL insert at the ETF best bid and a BUY hedge at
\* the FUTURE best ask of the latest snapshots, on FUTURE_RICH a BUY insert at
\* the ETF best ask and a SELL hedge at the FUTURE best bid; on NEUTRAL it
\* sends nothing.
C4_PairTradeShape ==
    MarketCall =>
        /\ (~ETF_Much_Greater /\ ~FTR_Much_Greater) => out = <<>>
        /\ out # <<>> =>
              /\ Len(out) = 2
              /\ out[1].kind = "insert" /\ out[2].kind = "hedge"
              /\ IF ETF_Much_Greater
                 THEN /\ out[1].side = "SELL" /\ out[1].price = snap["ETF"].bid
                      /\ out[2].side = "BUY" /\ out[2].price = snap["FUTURE"].ask
                 ELSE /\ FTR_Much_Greater
                      /\ out[1].side = "BUY" /\ out[1].price = snap["ETF"].ask
                      /\ out[2].side = "SELL" /\ out[2].price = snap["FUTURE"].bid

\* a market update has placed a pair trade on ETF_RICH against two-sided books
C4_Witness ==
    /\ MarketCall /\ ETF_Much_Greater /\ Len(out) = 2
    /\ snap["ETF"].bid # snap["ETF"].ask
    /\ snap["FUTURE"].bid # 0 /\ snap["FUTURE"].ask # 0

\* the displayed volume an order hits: a SELL hits the bid, a BUY the ask, of
\* the order's instrument (inserts trade the ETF, hedges the FUTURE)
DisplayedVolume(o) ==
    LET b == IF o.kind = "insert" THEN snap["ETF"] ELSE snap["FUTURE"]
    IN  IF o.side = "SELL" THEN b.bidVol ELSE b.askVol

\* C5: every order sent by a market update has volume
\* min(LOT_SIZE, displayed top-of-book volume on the side being hit).
C5_VolumeIsMinLotDisplayed ==
    MarketCall =>
        \A i \in DOMAIN out : out[i].volume = Min(LOT_SIZE, DisplayedVolume(out[i]))

\* C6: an evaluation with fewer than 2 prior spread samples completes with
\* verdict NEUTRAL and sends no order.
C6_FewSamplesNeutral ==
    (Evaluated /\ Len(DIFF_recent_mp_prices) - 1 < 2) =>
        /\ ~crashed
        /\ ~ETF_Much_Greater /\ ~FTR_Much_Greater
        /\ out = <<>>

\* C8: an order-filled callback with volume v for the id of an insert order
\* the engine sent changes the position by -v (SELL) or +v (BUY) and sends
\* exactly one hedge of volume v at the extreme tick.
C8_FillAppliedAndHedged ==
    [][ \A o \in SentInserts :
          (lastCall'.kind = "OrderFilled" /\ lastCall'.id = o.id) =>
              LET v == lastCall'.volume
              IN  IF o.side = "SELL"
                  THEN /\ mPosition' = mPosition - v
                       /\ Len(out') = 1
                       /\ out'[1].kind = "hedge" /\ out'[1].side = "BUY"
                       /\ out'[1].price = MAX_ASK_NEAREST_TICK /\ out'[1].volume = v
                  ELSE /\ mPosition' = mPosition + v
                       /\ Len(out') = 1
                       /\ out'[1].kind = "hedge" /\ out'[1].side = "SELL"
                       /\ out'[1].price = MIN_BID_NEARST_TICK /\ out'[1].volume = v
      ]_vars

\* C9: when a market update that emitted a pair trade returns, both emitted
\* client order ids are in the active-order set (mAsks / mBids).
C9_PairRegistered ==
    (MarketCall /\ out # <<>>) =>
        \A i \in DOMAIN out : out[i].id \in (mAsks \cup mBids)

(* ------------------- the contract of section 4.1 / 4.2 ----------------- *)
RECURSIVE SumTo(_, _)
SumTo(s, n) == IF n = 0 THEN 0 ELSE s[n] + SumTo(s, n - 1)

RECURSIVE SumSqTo(_, _)
SumSqTo(s, n) == IF n = 0 THEN 0 ELSE s[n] * s[n] + SumSqTo(s, n - 1)

\* The verdict on history s whose newest sample is s[Len(s)], with mean and
\* population standard deviation over the n = Len(s) - 1 prior samples.
\* newest > mean + stddev  iff  d > 0 and d^2 > n^2 * variance, where
\* d = n * newest - sum and n^2 * variance = n * sumsq - sum^2 (exact).
ContractVerdict(s) ==
    LET n == Len(s) - 1
        newest == s[Len(s)]
        sum == SumTo(s, n)
        d == n * newest - sum
        nnvar == n * SumSqTo(s, n) - sum * sum
    IN  IF d > 0 /\ d * d > nnvar THEN <<TRUE, FALSE>>
        ELSE IF d < 0 /\ d * d > nnvar THEN <<FALSE, TRUE>>
        ELSE <<FALSE, FALSE>>

\* C7: on a history with at least 2 prior samples the verdict is ETF_RICH iff
\* newest > mean + stddev, FUTURE_RICH iff newest < mean - stddev, NEUTRAL
\* otherwise, mean and stddev taken over the samples before the newest.
C7_VerdictFromPriorSamples ==
    (lastCall.kind = "deterMineOrderStatus" /\ Len(DIFF_recent_mp_prices) - 1 >= 2) =>
        <<ETF_Much_Greater, FTR_Much_Greater>> = ContractVerdict(DIFF_recent_mp_prices)

\* C10: an order-status callback with remainingVolume 0 for a tracked order
\* clears the order's slot and removes it (and nothing else) from the active
\* set; no order is removed twice; the same callback again changes nothing.
C10_CloseOnceIdempotent ==
    [][ (lastCall'.kind = "OrderStatus" /\ lastCall'.remaining = 0) =>
          LET id == lastCall'.id
          IN  /\ id \in (mAsks \cup mBids) =>
                    /\ mAsks' = mAsks \ {id} /\ mBids' = mBids \ {id}
                    /\ mAskId' = (IF mAskId = id THEN 0 ELSE mAskId)
                    /\ mBidId' = (IF mBidId = id THEN 0 ELSE mBidId)
                    /\ closed'[id] = 1
              /\ lastCall = lastCall' =>
                    UNCHANGED <<marketVars, uninitVars, positionVars, mAskID,
                                lifecycleVars, mNextMessageId, crashed, sent, out, closed,
                                disconnected, running, recorded>>
      ]_vars

\* an order-status callback with remainingVolume 0 has closed a tracked
\* order that held a slot
C10_Witness ==
    /\ lastCall.kind = "OrderStatus" /\ lastCall.remaining = 0
    /\ closed[lastCall.id] = 1
    /\ lastCall.id \notin (mAsks \cup mBids)
    /\ mAskId = 0 /\ mBidId # 0

\* C11: an error callback for a tracked order closes that order exactly as a
\* status update with no fill and no remaining volume does (its slot is
\* cleared and it leaves the active set), and leaves every other active
\* order, the other slot and every position unchanged.
C11_ErrorForceCloses ==
    [][ (lastCall'.kind = "Error" /\ lastCall'.id \in (mAsks \cup mBids)) =>
          LET id == lastCall'.id
          IN  /\ mAsks' = mAsks \ {id} /\ mBids' = mBids \ {id}
              /\ mAskId' = (IF mAskId = id THEN 0 ELSE mAskId)
              /\ mBidId' = (IF mBidId = id THEN 0 ELSE mBidId)
              /\ closed'[id] = closed[id] + 1
              /\ UNCHANGED positionVars
      ]_vars

\* an error callback has closed a tracked bid that held the bid slot while
\* another order stays active
C11_Witness ==
    /\ lastCall.kind = "Error"
    /\ closed[lastCall.id] = 1
    /\ lastCall.id \notin (mAsks \cup mBids)
    /\ mAsks # {} /\ mAskId # 0 /\ mBidId = 0

\* C12: an error callback sends no order, whatever its id; one whose id is
\* not a tracked order leaves the active set, both slots, every position,
\* the three windows and the signal flags unchanged.
C12_ErrorUntrackedIgnored ==
    [][ lastCall'.kind = "Error" =>
          /\ out' = <<>> /\ sent' = sent
          /\ lastCall'.id \notin (mAsks \cup mBids) =>
                UNCHANGED <<lifecycleVars, positionVars, windowVars, signalVars>>
      ]_vars

\* an error callback has been handled for the id the engine's orders carry,
\* which is not tracked, after a pair trade was sent on a raised flag
C12_Witness ==
    /\ lastCall.kind = "Error"
    /\ sent # <<>> /\ lastCall.id = sent[1].id
    /\ lastCall.id \notin (mAsks \cup mBids)
    /\ ETF_Much_Greater \/ FTR_Much_Greater
    /\ DIFF_recent_mp_prices # <<>>

Window(instrument) ==
    IF instrument = "ETF" THEN ETF_recent_mp_prices ELSE FTR_recent_mp_prices

\* C14: each instrument's window never holds more than WindowLength samples,
\* and after n recorded midprices it holds exactly the most recent
\* min(n, WindowLength) of them, in arrival order.
C14_WindowIsLastThirty ==
    \A i \in Instruments :
        LET n == Len(recorded[i])
            k == Min(n, WindowLength)
        IN  /\ Len(Window(i)) <= WindowLength
            /\ Window(i) = [j \in 1..k |-> recorded[i][n - k + j].mid]

\* C15: a step that changes any position (mPosition, ETF_Pos, FTR_Pos) is an
\* order-filled callback; every other callback, a market update that sends
\* orders included, leaves all three unchanged.
C15_OnlyFillsMovePosition ==
    [][ positionVars' # positionVars => lastCall'.kind = "OrderFilled" ]_vars

\* a market update has sent a pair trade of non-zero volume and the
\* positions still are what they were at construction
C15_Witness ==
    /\ MarketCall
    /\ Len(out) = 2 /\ out[1].volume > 0 /\ out[2].volume > 0
    /\ positionVars = <<0, 0, 0>>

\* C16: a market update whose sequence number is not above one already
\* handled for the same instrument is ignored: nothing is appended to a
\* window or to the spread history, and no order is sent.
C16_StaleUpdateIgnored ==
    [][ LET i == lastCall'.instrument
        IN  (/\ lastCall'.kind \in {"OrderBook", "TradeTicks"}
             /\ \E k \in DOMAIN recorded[i] :
                    Last(recorded'[i]).seq <= recorded[i][k].seq)
            => (UNCHANGED windowVars /\ out' = <<>>)
      ]_vars

\* C17: a trade-ticks callback leaves the state and sends the orders that a
\* book-update callback with the same arguments would, from the same state.
C17_TradeTicksAsBookUpdate ==
    [][ lastCall'.kind = "TradeTicks" =>
          LET i == lastCall'.instrument
              b == snap'[i]
          IN  MarketUpdate(i, Last(recorded'[i]).seq, b.ask, b.askVol, b.bid, b.bidVol)
      ]_vars

\* a trade-ticks callback has appended a spread sample, evaluated the signal
\* and sent a pair trade
C17_Witness ==
    /\ lastCall.kind = "TradeTicks"
    /\ Evaluated
    /\ Len(out) = 2

\* the midprice of the latest snapshot delivered for an instrument
SnapMid(instrument) == (snap[instrument].ask + snap[instrument].bid) \div 2

\* C18 as stated: once both instruments have recorded a midprice, every
\* market update appends one spread sample, the latest ETF midprice minus
\* the latest FUTURE midprice.
C18_SampleOnEveryUpdate ==
    [][ (/\ lastCall'.kind \in {"OrderBook", "TradeTicks"}
         /\ recorded["ETF"] # <<>> /\ recorded["FUTURE"] # <<>>)
        => DIFF_recent_mp_prices' =
              Append(DIFF_recent_mp_prices, SnapMid("ETF")' - SnapMid("FUTURE")')
      ]_vars

\* C18, amended: a market update appends one spread sample, the latest ETF
\* midprice minus the latest FUTURE midprice, and evaluates the signal on the
\* history exactly when both latest midprices are non-zero and the two
\* windows hold equally many samples; any other market update appends no
\* sample and leaves the flags as they were.
C18_SampleWhenWindowsLevel ==
    [][ lastCall'.kind \in {"OrderBook", "TradeTicks"} =>
          IF /\ SnapMid("ETF")' # 0 /\ SnapMid("FUTURE")' # 0
             /\ Len(ETF_recent_mp_prices') = Len(FTR_recent_mp_prices')
          THEN /\ DIFF_recent_mp_prices' =
                     Append(DIFF_recent_mp_prices, SnapMid("ETF")' - SnapMid("FUTURE")')
               /\ \/ crashed'
                  \/ <<ETF_Much_Greater', FTR_Much_Greater'>> = Verdict(DIFF_recent_mp_prices')
          ELSE UNCHANGED <<DIFF_recent_mp_prices, signalVars>>
      ]_vars

\* a market update with both midprices non-zero but windows of different
\* sizes has appended no sample to a history that holds one from before
C18_Witness ==
    /\ MarketCall
    /\ ETF_midprice # 0 /\ FTR_midprice # 0
    /\ Len(ETF_recent_mp_prices) # Len(FTR_recent_mp_prices)
    /\ Len(DIFF_recent_mp_prices) = 1
    /\ ~crashed

\* C19: positions move only on fills and nothing is reserved at send time:
\* a market update that finds the ETF flag raised, both midprices and the
\* ETF bid non-zero and no position sends a SELL insert order and leaves the
\* position as it is, whatever volume is already in flight; the same holds
\* for BUY on the FUTURE flag.  So unfilled insert orders of one direction
\* add up past POSITION_LIMIT (the state C19_Witness).
C19_SendIgnoresInFlight ==
    [][ (/\ lastCall'.kind \in {"OrderBook", "TradeTicks"}
         /\ ~crashed'
         /\ SnapMid("ETF")' # 0 /\ SnapMid("FUTURE")' # 0
         /\ ETF_Pos = 0)
        => /\ (ETF_Much_Greater' /\ snap'["ETF"].bid # 0) =>
                 /\ Len(out') = 2
                 /\ out'[1].kind = "insert" /\ out'[1].side = "SELL"
                 /\ InFlight("SELL")' = InFlight("SELL") + out'[1].volume
                 /\ ETF_Pos' = ETF_Pos
           /\ (~ETF_Much_Greater' /\ FTR_Much_Greater') =>
                 /\ Len(out') = 2
                 /\ out'[1].kind = "insert" /\ out'[1].side = "BUY"
                 /\ InFlight("BUY")' = InFlight("BUY") + out'[1].volume
                 /\ ETF_Pos' = ETF_Pos
      ]_vars

\* with no fill handled, an evaluation on the third or a later spread sample
\* has passed the position check and sent a SELL insert order although the
\* SELL insert orders in flight already stood at POSITION_LIMIT, taking the
\* ETF position less the volume in flight below -POSITION_LIMIT
C19_Witness ==
    /\ Evaluated
    /\ Len(DIFF_recent_mp_prices) >= 3
    /\ Len(out) = 2 /\ out[1].side = "SELL"
    /\ InFlight("SELL") - out[1].volume >= POSITION_LIMIT
    /\ Abs(ETF_Pos - InFlight("SELL")) > POSITION_LIMIT

\* C20: the standard deviation an evaluation uses is the integer square root
\* of the mean squared deviation of the n prior samples from their mean: it
\* is non-negative, 0 when all samples are equal, and grows with their
\* dispersion.  With V = n^2 * variance = n * sumsq - sum^2 (exact), it is
\* the sd with sd^2 * n^2 <= V < (sd + 1)^2 * n^2.
C20_StdDevIsRootMeanSquare ==
    (lastCall.kind = "deterMineOrderStatus" /\ Len(DIFF_recent_mp_prices) - 1 >= 2) =>
        LET n == Len(DIFF_recent_mp_prices) - 1
            sum == SumTo(DIFF_recent_mp_prices, n)
            V == n * SumSqTo(DIFF_recent_mp_prices, n) - sum * sum
            sd == stdDevDif(DIFF_recent_mp_prices)
        IN  /\ sd >= 0
            /\ sd * sd * n * n <= V
            /\ V < (sd + 1) * (sd + 1) * n * n

\* C21: a market update sends a pair trade only if that same callback
\* appended a spread sample and evaluated it to ETF_RICH or FUTURE_RICH; an
\* update that appends no sample sends nothing.
C21_TradeOnlyOnFreshVerdict ==
    [][ (lastCall'.kind \in {"OrderBook", "TradeTicks"} /\ out' # <<>>) =>
          /\ Len(DIFF_recent_mp_prices') = Len(DIFF_recent_mp_prices) + 1
          /\ ETF_Much_Greater' \/ FTR_Much_Greater'
      ]_vars

\* a top-of-book snapshot with an empty side
OneSided(b) == b.bid = 0 \/ b.ask = 0

\* C22: while either side of either instrument's latest snapshot is zero, a
\* market update appends no spread sample, evaluates no signal and sends no
\* order; and an update whose own snapshot has a zero side appends no
\* midprice to its window.
C22_MidpriceNeedsBothSides ==
    [][ lastCall'.kind \in {"OrderBook", "TradeTicks"} =>
          /\ (\E j \in Instruments : OneSided(snap'[j])) =>
                /\ UNCHANGED <<DIFF_recent_mp_prices, signalVars>>
                /\ out' = <<>>
          /\ OneSided(snap'[lastCall'.instrument]) =>
                IF lastCall'.instrument = "ETF"
                THEN ETF_recent_mp_prices' = ETF_recent_mp_prices
                ELSE FTR_recent_mp_prices' = FTR_recent_mp_prices
      ]_vars

\* signed integer division, rounding toward zero
TruncDiv(a, b) == IF a >= 0 THEN a \div b ELSE -((-a) \div b)

\* the verdict of lines 66-93 with every spread sample taken as the signed
\* difference ETF midprice - FUTURE midprice and the mean, mean + stddev and
\* mean - stddev computed and compared as signed values
SignedVerdict(s) ==
    LET newest == s[Len(s)]
        mean == TruncDiv(SumFrom(s, 2), Len(s) - 1)
        sd == stdDevDif(s)
    IN  IF newest > mean + sd THEN <<TRUE, FALSE>>
        ELSE IF newest < mean - sd THEN <<FALSE, TRUE>>
        ELSE <<FALSE, FALSE>>

\* C23: on every spread history, those with samples where the ETF midprice
\* is below the FUTURE midprice included, the flags an evaluation sets are
\* those of the threshold comparisons made on signed values, with no
\* wrap-around modulo 2^64 in a sample, in the mean or in mean - stddev.
C23_SignedComparisons ==
    (lastCall.kind = "deterMineOrderStatus" /\ Len(DIFF_recent_mp_prices) - 1 >= 1) =>
        <<ETF_Much_Greater, FTR_Much_Greater>> = SignedVerdict(DIFF_recent_mp_prices)

\* the number of orders sent of a kind ("insert" trades the ETF, "hedge" the
\* FUTURE) and a side
SentCount(kind, side) ==
    Cardinality({i \in DOMAIN sent : sent[i].kind = kind /\ sent[i].side = side})

\* C24: in each own-order book the recorded ids, prices and volumes are
\* equally many, and each book holds one record per order sent for its
\* instrument and side (a SELL is an ask, a BUY a bid).  The source keeps
\* no id list for FUTURE bids.
C24_OwnOrderBooksConsistent ==
    /\ Len(my_ETF_ask_ids) = Len(my_ETF_ask_arr)
    /\ Len(my_ETF_ask_vol_arr) = Len(my_ETF_ask_arr)
    /\ Len(my_ETF_ask_arr) = SentCount("insert", "SELL")
    /\ Len(my_ETF_bid_ids) = Len(my_ETF_bid_arr)
    /\ Len(my_etf_bid_vol_arr) = Len(my_ETF_bid_arr)
    /\ Len(my_ETF_bid_arr) = SentCount("insert", "BUY")
    /\ Len(my_FTR_ask_ids) = Len(my_FTR_ask_arr)
    /\ Len(my_FTR_ask_vol_arr) = Len(my_FTR_ask_arr)
    /\ Len(my_FTR_ask_arr) = SentCount("hedge", "SELL")
    /\ Len(my_FTR_bid_vol_arr) = Len(my_FTR_bid_arr)
    /\ Len(my_FTR_bid_arr) = SentCount("hedge", "BUY")
====
